---- MODULE Spec2Model ----
(***************************************************************************)
(* Shortest path across a simple polygon derived from a sequence of        *)
(* bundles of line segments (src/shortest_path.py, src/utils.py).          *)
(*                                                                         *)
(* Points are pairs <<x, y>> of integers; an endpoint moved onto its ray   *)
(* off the axes is written <<x, y, r>> (see Moved).  Lists are sequences;  *)
(* indices kept in variables are Python's 0-based indices, read through    *)
(* At/Slice/Index.  With integer coordinates every cross product is an     *)
(* integer, so the comparisons against EPSILON = 1e-6 are computed         *)
(* exactly on EPSILON_NUM / EPSILON_DEN.                                   *)
(***************************************************************************)
EXTENDS Integers, Sequences, FiniteSets, TLC

VARIABLES
    sequence,           \* the SequenceOfBundles object, or None
    polygon,            \* the polygon object (SimplePolygon or
                        \* SimplePolygonFromSequenceOfBundle), or None
    polygon2,           \* TRUE when a plain SimplePolygon over the same two
                        \* lists exists (main.py:78)
    error,              \* exception raised by a constructor or by
                        \* add_line_segment; the program ends there
    added,              \* the last call of add_line_segment that returned:
                        \* the value returned, the errors logged, whether
                        \* the endpoint was stored
    pc,                 \* position of the running find_shortest_path call
    self,               \* the object the running call was made on
    direction,          \* find_shortest_path: direction
    start_index,        \* find_shortest_path: start_index
    curr_polyline,      \* find_shortest_path: curr_polyline ("P" or "Q": the
                        \* list object the local refers to)
    dual_polyline,      \* find_shortest_path: dual_polyline ("P" or "Q")
    tangent_polyline,   \* find_shortest_path: tangent_polyline
    shortest_path,      \* find_shortest_path: shortest_path
    i,                  \* find_shortest_path: loop index of the for loop
    curr_cv_rope_label, \* pruned engine: curr_cv_rope_label
    seen,               \* loop-head configurations met in this call
    call,               \* [self, direction] of the last call made
    ret,                \* outcome of the last finished call
    prev                \* [call, ret] of the call finished before it

vars == <<sequence, polygon, polygon2, error, added, pc, self, direction,
          start_index, curr_polyline, dual_polyline, tangent_polyline,
          shortest_path, i, curr_cv_rope_label, seen,
          call, ret, prev>>

None == "None"

\* Python's None where a point, an object, a call or an outcome is expected
NoPoint == <<>>
NoObject == [kind |-> "None", polyline_P |-> <<>>, polyline_Q |-> <<>>,
             cv_rope_label_on_P |-> <<>>, cv_rope_label_on_Q |-> <<>>]
NoSequence == [kind |-> "None", skeleton |-> <<>>, radius |-> 0,
               outer_endpoints |-> <<>>]
NoAdd == [returned |-> "no call", logged |-> <<>>, stored |-> FALSE]
NoCall == [self |-> None, direction |-> TRUE]
NoOutcome == [kind |-> "None", path |-> <<>>]
NoPrev == [call |-> NoCall, ret |-> NoOutcome]

----------------------------------------------------------------------------
(* Bounds of the model *)

MaxCoord == 2
MaxInner == 2
MaxSkeleton == 3
MaxEndpoints == 2
MaxRadius == 3

----------------------------------------------------------------------------
(* Python list operations *)

At(s, k) == s[k + 1]
Last(s) == s[Len(s)]

Min2(a, b) == IF a < b THEN a ELSE b
Max2(a, b) == IF a > b THEN a ELSE b

\* s[a:b] for 0 <= a, 0 <= b
Slice(s, a, b) == SubSeq(s, a + 1, Min2(b, Len(s)))

\* s[a:]
SliceFrom(s, a) == SubSeq(s, a + 1, Len(s))

\* s[a:-1]
SliceToLast(s, a) == SubSeq(s, a + 1, Len(s) - 1)

Contains(s, x) == \E k \in 1..Len(s) : s[k] = x

\* s.index(x): the first position of x; raises ValueError when absent
Index(s, x) == (CHOOSE k \in 1..Len(s) :
                    s[k] = x /\ \A j \in 1..(k - 1) : s[j] # x) - 1

----------------------------------------------------------------------------
(* utils.py *)

EPSILON_NUM == 1
EPSILON_DEN == 1000000

Sign(d) == IF d THEN 1 ELSE -1

Cross(p0, p1, p) ==
    (p1[1] - p0[1]) * (p[2] - p0[2]) - (p[1] - p0[1]) * (p1[2] - p0[2])

is_left(p0, p1, p, d) ==
    Cross(p0, p1, p) * Sign(d) * EPSILON_DEN > EPSILON_NUM

is_left_on(p0, p1, p, d) ==
    Cross(p0, p1, p) * Sign(d) * EPSILON_DEN >= -EPSILON_NUM

----------------------------------------------------------------------------
(* utils.py: distances and angles                                          *)
(*                                                                         *)
(* calculate_angle returns, in degrees, acos of a cosine computed from two *)
(* rounded square roots.  Angles are compared here through the integers    *)
(* their cosines are made of.  Between two rays that are not on one line   *)
(* the computed angle is the exact one to within 1e-12 degrees.  Between   *)
(* two rays of one line the exact cosine is 1 or -1, and the computed one  *)
(* sqrt(n * m) / (sqrt(n) * sqrt(m)) is exact or one or two units in the   *)
(* last place off, as the squared lengths n and m decide; acos turns that  *)
(* into an angle 0, 854 or 1207 billionths of a degree off, to be compared *)
(* with EPSILON, 1000 billionths.                                          *)

Vec(a, b) == <<b[1] - a[1], b[2] - a[2]>>
Dot(a, b) == a[1] * b[1] + a[2] * b[2]
Det(a, b) == a[1] * b[2] - a[2] * b[1]
Norm2(a) == Dot(a, a)

Sgn(n) == IF n > 0 THEN 1 ELSE IF n < 0 THEN -1 ELSE 0
Abs(n) == IF n < 0 THEN -n ELSE n

\* floor(sqrt(n)) searched between lo and hi
RECURSIVE ISqrtIn(_, _, _)
ISqrtIn(n, lo, hi) ==
    IF lo >= hi THEN lo
    ELSE LET mid == (lo + hi + 1) \div 2
         IN  IF mid * mid <= n THEN ISqrtIn(n, mid, hi)
             ELSE ISqrtIn(n, lo, mid - 1)

\* calculate_distance(a, b) > r, on the squares
FartherThan(a, b, r) == Norm2(Vec(a, b)) > r * r

\* calculate_angle(A, B, C) raises ValueError
ZeroLength(A, B, C) == A = B \/ C = B

\* the squared lengths, up to 50, of two rays of one line whose computed
\* cosine is one unit in the last place off
OneUlpOff == {<<5, 45>>, <<20, 45>>, <<45, 45>>, <<50, 50>>}

\* and those whose computed cosine is two units off
TwoUlpsOff ==
    {<<2, 2>>, <<2, 8>>, <<2, 32>>, <<2, 50>>, <<5, 5>>, <<5, 20>>,
     <<8, 8>>, <<8, 32>>, <<8, 50>>, <<10, 10>>, <<10, 40>>, <<20, 20>>,
     <<32, 32>>, <<32, 50>>, <<40, 40>>}

\* the vectors the two tables cover
Tabulated(a) == Norm2(a) <= 50

\* the computed angle between the vectors a and b less the exact one, in
\* billionths of a degree
AngleError(a, b) ==
    LET nm == <<Min2(Norm2(a), Norm2(b)), Max2(Norm2(a), Norm2(b))>>
        off == IF nm \in TwoUlpsOff THEN 1207
               ELSE IF nm \in OneUlpOff THEN 854
               ELSE 0
    IN  IF Det(a, b) # 0 THEN 0
        ELSE IF Dot(a, b) > 0 THEN off
        ELSE -off

\* EPSILON in billionths of a degree
EpsilonAngle == (1000000000 \div EPSILON_DEN) * EPSILON_NUM

\* the sign of cos(u, a) - cos(u, b)
CompareCos(u, a, b) ==
    LET A == Dot(u, a)
        B == Dot(u, b)
        d == A * A * Norm2(b) - B * B * Norm2(a)
    IN  IF A >= 0 /\ B >= 0 THEN Sgn(d)
        ELSE IF A < 0 /\ B < 0 THEN -Sgn(d)
        ELSE IF A >= 0 THEN 1 ELSE -1

\* the sign of angle(A, B, C) - angle(A, B, D) in exact arithmetic
CompareAngle(A, B, C, D) == -CompareCos(Vec(B, A), Vec(B, C), Vec(B, D))

\* is_larger_angle(calculate_angle(A, B, C), calculate_angle(A, B, D))
is_larger_angle(A, B, C, D) ==
    LET c == CompareAngle(A, B, C, D)
        d == AngleError(Vec(B, A), Vec(B, C))
                 - AngleError(Vec(B, A), Vec(B, D))
    IN  c = 1 \/ (c = 0 /\ d > EpsilonAngle)

\* is_equal_angle(calculate_angle(A, B, C), calculate_angle(A, B, D))
is_equal_angle(A, B, C, D) ==
    LET c == CompareAngle(A, B, C, D)
        d == AngleError(Vec(B, A), Vec(B, C))
                 - AngleError(Vec(B, A), Vec(B, D))
    IN  c = 0 /\ Abs(d) <= EpsilonAngle

\* angle(A, B, C) = angle(A, B, D) + angle(D, B, C) in exact arithmetic: D is
\* in the closed sector between the rays BA and BC, any D when A, B, C lie
\* on a line with B between
InSector(A, B, C, D) ==
    LET u == Vec(B, A)
        w == Vec(B, C)
        x == Vec(B, D)
        s == Sgn(Det(u, w))
    IN  IF s # 0 THEN Det(u, x) * s >= 0 /\ Det(x, w) * s >= 0
        ELSE IF Dot(u, w) < 0 THEN TRUE
        ELSE Det(u, x) = 0 /\ Dot(u, x) > 0

\* is_equal_angle(calculate_angle(A, B, C),
\*                calculate_angle(A, B, D) + calculate_angle(D, B, C))
is_angle_sum(A, B, C, D) ==
    LET u == Vec(B, A)
        w == Vec(B, C)
        x == Vec(B, D)
        d == AngleError(u, w) - (AngleError(u, x) + AngleError(x, w))
    IN  InSector(A, B, C, D) /\ Abs(d) <= EpsilonAngle

----------------------------------------------------------------------------
(* SimplePolygon: helpers of the engine (shortest_path.py:149-202) *)

is_inside_new_hull(left_tp, right_tp, added_pt, checking_pt, d) ==
    /\ is_left(left_tp, added_pt, checking_pt, d)
    /\ is_left(added_pt, right_tp, checking_pt, d)
    /\ is_left(right_tp, left_tp, checking_pt, d)

verify_link(Xstar, Ystar, Ustar, Vstar, d) ==
    /\ \A k \in 1..Len(Xstar) : is_left_on(Ustar, Vstar, Xstar[k], d)
    /\ \A k \in 1..Len(Ystar) : is_left_on(Ustar, Vstar, Ystar[k], ~d)

\* the pairs of positions (in Xstar, in Ystar) that verify_link accepts
ValidLinks(Xstar, Ystar, d) ==
    {p \in (1..Len(Xstar)) \X (1..Len(Ystar)) :
        verify_link(Xstar, Ystar, Xstar[p[1]], Ystar[p[2]], d)}

\* the first pair of the two nested loops when accepted, else (None, None)
find_link_first_pair_only(Xstar, Ystar, d) ==
    IF verify_link(Xstar, Ystar, Xstar[1], Ystar[1], d)
    THEN <<Xstar[1], Ystar[1]>>
    ELSE <<NoPoint, NoPoint>>

\* the first pair of the two nested loops, not verified
find_link_unverified(Xstar, Ystar, d) == <<Xstar[1], Ystar[1]>>

\* the first accepted pair in the order of the two nested loops, or
\* <<NoPoint, NoPoint>> for (None, None)
find_link(Xstar, Ystar, d) ==
    LET ok == ValidLinks(Xstar, Ystar, d)
    IN  IF ok = {} THEN <<NoPoint, NoPoint>>
        ELSE LET f == CHOOSE p \in ok : \A q \in ok :
                          \/ p[1] < q[1]
                          \/ (p[1] = q[1] /\ p[2] <= q[2])
             IN  <<Xstar[f[1]], Ystar[f[2]]>>

\* the run taken from one position after the start point
get_tangent_line_after_start(tp, start_tp_idx, end_tp_idx) ==
    IF end_tp_idx < start_tp_idx
    THEN SliceFrom(tp, start_tp_idx + 1) \o Slice(tp, 1, end_tp_idx + 1)
    ELSE Slice(tp, start_tp_idx + 1, end_tp_idx + 1)

\* the run taken as one slice, whatever the order of the two positions
get_tangent_line_one_slice(tp, start_tp_idx, end_tp_idx) ==
    Slice(tp, start_tp_idx, end_tp_idx + 1)

get_tangent_line(tp, start_tp_idx, end_tp_idx) ==
    IF end_tp_idx < start_tp_idx
    THEN SliceFrom(tp, start_tp_idx) \o Slice(tp, 1, end_tp_idx + 1)
    ELSE Slice(tp, start_tp_idx, end_tp_idx + 1)

RECURSIVE LeftTangent(_, _, _, _)
LeftTangent(tp, added_pt, d, idx) ==
    IF idx > 0 /\ ~is_left(At(tp, idx - 1), At(tp, idx), added_pt, d)
    THEN LeftTangent(tp, added_pt, d, idx - 1)
    ELSE idx

RECURSIVE RightTangent(_, _, _, _)
RightTangent(tp, added_pt, d, idx) ==
    IF idx < Len(tp) - 1 /\ ~is_left(added_pt, At(tp, idx), At(tp, idx + 1), d)
    THEN RightTangent(tp, added_pt, d, idx + 1)
    ELSE idx

\* <<left_tp_idx, right_tp_idx>>
find_tangent_points(tp, added_pt, d) ==
    <<LeftTangent(tp, added_pt, d, Len(tp) - 1),
      RightTangent(tp, added_pt, d, 0)>>

----------------------------------------------------------------------------
(* The polygon object and the frame of a find_shortest_path call *)

Chain(name) ==
    IF name = "P" THEN polygon.polyline_P ELSE polygon.polyline_Q

\* shortest_path.py:327-329, the label list of curr_polyline, chosen by the
\* identity of the list object
Labels(name) ==
    IF name = "P" THEN polygon.cv_rope_label_on_P
    ELSE polygon.cv_rope_label_on_Q

\* self.polyline_P[-1]
Goal == Last(polygon.polyline_P)

\* shortest_path.py:209-211 and 330-332: the comparison is list equality,
\* not identity
DualOf(name) ==
    IF Chain(name) = polygon.polyline_P THEN "Q" ELSE "P"

\* the method a call on object s runs: the pruned override on the polygon
\* built from a sequence of bundles, the base method otherwise
Pruned(s) == s = "polygon" /\ polygon.kind = "SimplePolygonFromSequenceOfBundle"

Frame0 ==
    /\ self' = None
    /\ direction' = TRUE
    /\ start_index' = 0
    /\ curr_polyline' = "P"
    /\ dual_polyline' = "Q"
    /\ tangent_polyline' = <<>>
    /\ shortest_path' = <<>>
    /\ i' = 0
    /\ curr_cv_rope_label' = 0
    /\ seen' = {}

\* return (kind = "path") or raise (kind = the exception): the locals die
Finish(kind, path) ==
    /\ pc' = "idle"
    /\ ret' = [kind |-> kind, path |-> path]
    /\ Frame0
    /\ UNCHANGED <<sequence, polygon, polygon2, error, added, call, prev>>

\* a call whose path list is the one the last call returned
CallKeepingPath(s, d) ==
    /\ pc = "idle"
    /\ polygon # NoObject
    /\ s = "polygon2" => polygon2
    /\ pc' = "while"
    /\ self' = s
    /\ direction' = d
    /\ start_index' = 0
    /\ curr_polyline' = IF d THEN "P" ELSE "Q"
    /\ shortest_path' = ret.path
    /\ seen' = {}
    /\ call' = [self |-> s, direction |-> d]
    /\ ret' = NoOutcome
    /\ prev' = [call |-> call, ret |-> ret]
    /\ UNCHANGED <<sequence, polygon, polygon2, error, added, dual_polyline,
                   tangent_polyline, i, curr_cv_rope_label>>

\* shortest_path.py:204-207 and 321-324
Call(s, d) ==
    /\ pc = "idle"
    /\ polygon # NoObject
    /\ s = "polygon2" => polygon2
    /\ pc' = "while"
    /\ self' = s
    /\ direction' = d
    /\ start_index' = 0
    /\ curr_polyline' = IF d THEN "P" ELSE "Q"
    /\ shortest_path' = <<>>
    /\ seen' = {}
    /\ call' = [self |-> s, direction |-> d]
    /\ ret' = NoOutcome
    /\ prev' = [call |-> call, ret |-> ret]
    /\ UNCHANGED <<sequence, polygon, polygon2, error, added, dual_polyline,
                   tangent_polyline, i, curr_cv_rope_label>>

\* <<curr_polyline, start_index, direction>> decides everything the loop
\* does from its head on: shortest_path is only appended to
Config == <<curr_polyline, start_index, direction>>

\* the head of "while True" is reached in a configuration met before in this
\* call: the call never returns
LoopForever ==
    /\ pc = "while"
    /\ Config \in seen
    /\ pc' = "diverged"
    /\ UNCHANGED <<sequence, polygon, polygon2, error, added, self, direction,
                   start_index, curr_polyline, dual_polyline,
                   tangent_polyline, shortest_path, i, curr_cv_rope_label,
                   seen, call, ret, prev>>

\* shortest_path.py:214-216 and 336-338: "shortest_path += <a Point>" raises
\* TypeError, a Point is not iterable
GoalAtStart ==
    /\ pc = "while"
    /\ Config \notin seen
    /\ At(Chain(curr_polyline), start_index) = Goal
    /\ Finish("TypeError", <<>>)

\* shortest_path.py:217-219 and 339-341
GoalNext ==
    /\ pc = "while"
    /\ Config \notin seen
    /\ LET curr == Chain(curr_polyline)
       IN  /\ At(curr, start_index) # Goal
           /\ start_index + 1 < Len(curr)
           /\ At(curr, start_index + 1) = Goal
           /\ Finish("path", shortest_path \o
                     <<At(curr, start_index), At(curr, start_index + 1)>>)

\* shortest_path.py:209-212, 221-230 and 327-333, 343-357
InitHull ==
    /\ pc = "while"
    /\ Config \notin seen
    /\ LET curr == Chain(curr_polyline)
           lab  == Labels(curr_polyline)
       IN  /\ At(curr, start_index) # Goal
           /\ start_index + 2 < Len(curr)
           /\ At(curr, start_index + 1) # Goal
           /\ LET pt0 == At(curr, start_index)
                  pt1 == At(curr, start_index + 1)
                  pt2 == At(curr, start_index + 2)
              IN  tangent_polyline' =
                      IF is_left(pt0, pt1, pt2, direction)
                      THEN <<pt0, pt1>> ELSE <<pt1, pt0>>
           /\ curr_cv_rope_label' =
                  IF ~Pruned(self) THEN 0
                  ELSE IF At(lab, start_index) = 0
                       THEN At(lab, start_index + 1)
                       ELSE At(lab, start_index)
    /\ dual_polyline' = DualOf(curr_polyline)
    /\ i' = start_index + 2
    /\ seen' = seen \cup {Config}
    /\ pc' = "for"
    /\ UNCHANGED <<sequence, polygon, polygon2, error, added, self, direction,
                   start_index, curr_polyline, shortest_path, call, ret,
                   prev>>

----------------------------------------------------------------------------
(* One iteration of "for i in range(start_index+2, len(curr_polyline))" *)

added_pt == At(Chain(curr_polyline), i)

TangentPoints == find_tangent_points(tangent_polyline, added_pt, direction)
left_tp_idx == TangentPoints[1]
right_tp_idx == TangentPoints[2]

\* shortest_path.py:368-372: the pruned engine tests the dual chain only when
\* the added point is off the current convex rope; the base engine always
ChecksIntersection ==
    \/ ~Pruned(self)
    \/ At(Labels(curr_polyline), i) # curr_cv_rope_label
    \/ /\ At(Labels(curr_polyline), i) = 0
       /\ At(Labels(curr_polyline), i - 1) # curr_cv_rope_label

\* shortest_path.py:240-244 and 373-377
Ystar ==
    IF ChecksIntersection
    THEN SelectSeq(Chain(dual_polyline),
                   LAMBDA pt : is_inside_new_hull(
                       At(tangent_polyline, left_tp_idx),
                       At(tangent_polyline, right_tp_idx),
                       added_pt, pt, direction))
    ELSE <<>>

\* shortest_path.py:260-263 and 381-384
Xstar ==
    IF Len(tangent_polyline) = 2 THEN tangent_polyline
    ELSE SliceToLast(tangent_polyline, left_tp_idx)
             \o Slice(tangent_polyline, 0, right_tp_idx + 1)

Link == find_link(Xstar, Ystar, direction)
Ustar == Link[1]
Vstar == Link[2]

\* the added point put at both ends of the whole tangent polyline
AbsorbedWithoutSlice == <<added_pt>> \o tangent_polyline \o <<added_pt>>

\* shortest_path.py:248-250 and 399-401
Absorbed ==
    <<added_pt>> \o Slice(tangent_polyline, right_tp_idx, left_tp_idx + 1)
        \o <<added_pt>>

InFor == pc = "for" /\ i < Len(Chain(curr_polyline))

\* no intersection, the added point is not the goal
Absorb ==
    /\ InFor
    /\ Ystar = <<>>
    /\ added_pt # Goal
    /\ tangent_polyline' = Absorbed
    /\ i' = i + 1
    /\ pc' = IF i + 1 < Len(Chain(curr_polyline)) THEN "for" ELSE "while"
    /\ UNCHANGED <<sequence, polygon, polygon2, error, added, self, direction,
                   start_index, curr_polyline, dual_polyline, shortest_path,
                   curr_cv_rope_label, seen, call, ret, prev>>

StartPoint == At(Chain(curr_polyline), start_index)

\* shortest_path.py:251-257 and 402-408
ReachGoal ==
    /\ InFor
    /\ Ystar = <<>>
    /\ added_pt = Goal
    /\ Contains(Absorbed, StartPoint)
    /\ Finish("path", shortest_path \o
                  SliceFrom(Absorbed, Index(Absorbed, StartPoint)))

\* shortest_path.py:254 and 405: tangent_polyline.index raises ValueError
\* when the slice dropped the start point
ReachGoalLost ==
    /\ InFor
    /\ Ystar = <<>>
    /\ added_pt = Goal
    /\ ~Contains(Absorbed, StartPoint)
    /\ Finish("ValueError", <<>>)

\* shortest_path.py:266 and 387
CannotFindLink == "Exception: Cannot find link [u*, v*]"

\* shortest_path.py:264-266 and 385-387
NoLink ==
    /\ InFor
    /\ Ystar # <<>>
    /\ Ustar = NoPoint
    /\ Finish(CannotFindLink, <<>>)

\* shortest_path.py:268-275 and 389-396
Switch ==
    /\ InFor
    /\ Ystar # <<>>
    /\ Ustar # NoPoint
    /\ Contains(tangent_polyline, StartPoint)
    /\ shortest_path' = shortest_path \o
           get_tangent_line(tangent_polyline,
                            Index(tangent_polyline, StartPoint),
                            Index(tangent_polyline, Ustar))
    /\ start_index' = Index(Chain(dual_polyline), Vstar)
    /\ curr_polyline' = dual_polyline
    /\ direction' = ~direction
    /\ pc' = "while"
    /\ UNCHANGED <<sequence, polygon, polygon2, error, added, self,
                   dual_polyline, tangent_polyline, i, curr_cv_rope_label,
                   seen, call, ret, prev>>

\* shortest_path.py:268 and 389: tangent_polyline.index raises ValueError
SwitchLost ==
    /\ InFor
    /\ Ystar # <<>>
    /\ Ustar # NoPoint
    /\ ~Contains(tangent_polyline, StartPoint)
    /\ Finish("ValueError", <<>>)

----------------------------------------------------------------------------
(* Inputs *)

Grid == (0..MaxCoord) \X (0..MaxCoord)

Origin == <<0, 0>>

\* the sequences of n distinct points of S
Distinct(S, n) ==
    {f \in [1..n -> S] : \A a, b \in 1..n : a # b => f[a] # f[b]}

\* chains over the grid from the origin to g: at most MaxInner inner points
\* in all, no point twice
SplitChains(g) ==
    UNION {UNION {{<<<<Origin>> \o SubSeq(f, 1, c) \o <<g>>,
                     <<Origin>> \o SubSeq(f, c + 1, n) \o <<g>>>> : c \in 0..n}
                  : f \in Distinct(Grid \ {Origin, g}, n)}
           : n \in 0..MaxInner}

\* the same chain given twice
EqualChains(g) ==
    UNION {{<<<<Origin>> \o f \o <<g>>, <<Origin>> \o f \o <<g>>>>
              : f \in Distinct(Grid \ {Origin, g}, n)}
           : n \in 0..MaxInner}

\* chains whose first or last points differ
MismatchedChains(g) ==
    {<<<<Origin, g>>, <<g, g>>>>, <<<<Origin, g>>, <<Origin, Origin>>>>,
     <<<<Origin, g>>, <<g, Origin>>>>}

GridChains ==
    UNION {SplitChains(g) \cup EqualChains(g) \cup MismatchedChains(g)
           : g \in Grid \ {Origin}}

\* obj.py:248-254, the skeleton of the example; both chains equal to it
ExampleSkeleton == <<<<0, 0>>, <<2, 2>>, <<4, 1>>, <<6, 3>>, <<8, 0>>>>

\* chains of a simple polygon, P on the left, no three vertices collinear
KitePolygon ==
    <<<<<<1, 3>>, <<0, 3>>>>, <<<<1, 3>>, <<2, 1>>, <<4, 4>>, <<0, 3>>>>>>

\* chains of a simple polygon, P on the left
SpiralPolygon ==
    <<<<<<2, 2>>, <<1, 3>>, <<1, 1>>, <<4, 2>>>>,
      <<<<2, 2>>, <<1, 4>>, <<0, 0>>, <<4, 2>>>>>>

\* chains that touch: Q runs along the diagonal of the square P walks
\* around, through its corner <<4, 4>>
TouchingChains ==
    <<<<<<0, 0>>, <<4, 0>>, <<4, 4>>, <<0, 4>>, <<6, 6>>>>,
      <<<<0, 0>>, <<3, 3>>, <<6, 6>>>>>>

\* chains that cross: Q crosses itself and the segment P
CrossingChains ==
    <<<<<<1, 3>>, <<2, 1>>>>,
      <<<<1, 3>>, <<3, 1>>, <<1, 1>>, <<3, 0>>, <<0, 0>>, <<2, 1>>>>>>

\* chains on which the hull drops the start point before a switch
LostStartChains ==
    <<<<<<2, 2>>, <<3, 0>>>>,
      <<<<2, 2>>, <<2, 3>>, <<3, 3>>, <<2, 1>>, <<1, 3>>, <<3, 0>>>>>>

\* chains of a simple polygon, P on the right
CoiledPolygon ==
    <<<<<<2, 2>>, <<4, 4>>, <<0, 3>>, <<1, 0>>>>,
      <<<<2, 2>>, <<2, 3>>, <<1, 2>>, <<4, 1>>, <<1, 0>>>>>>

\* chains of a simple polygon on which no link is found
BlockedPolygon ==
    <<<<<<1, 1>>, <<1, 4>>, <<4, 1>>, <<4, 0>>, <<1, 0>>>>,
      <<<<1, 1>>, <<3, 1>>, <<1, 0>>>>>>

ExampleChains ==
    {<<ExampleSkeleton, ExampleSkeleton>>, KitePolygon, SpiralPolygon,
     CoiledPolygon, BlockedPolygon, TouchingChains, CrossingChains,
     LostStartChains}

ChainInputs == GridChains \cup ExampleChains

\* a skeleton with two turns the same way
RopeSkeleton == <<<<0, 0>>, <<0, 2>>, <<2, 1>>, <<2, 0>>>>

\* skeletons over the grid from the origin, no point twice, and the examples
Skeletons ==
    UNION {{<<Origin>> \o f : f \in Distinct(Grid \ {Origin}, n - 1)}
           : n \in 2..MaxSkeleton}
    \cup {ExampleSkeleton, RopeSkeleton}

Radii == {1, MaxRadius}

\* an endpoint farther than MaxRadius from vertices of the grid, off the axes
FarEndpoints == {<<0, 3>>}

\* the endpoints given to add_line_segment
Endpoints == Grid \cup FarEndpoints

----------------------------------------------------------------------------
(* Constructors *)

\* the constructor without its check of the end points
NewSimplePolygonUnchecked(P, Q) ==
    /\ pc = "idle"
    /\ polygon = NoObject
    /\ sequence = NoSequence
    /\ error = None
    /\ error' = None
    /\ polygon' = [kind |-> "SimplePolygon",
                   polyline_P |-> P, polyline_Q |-> Q,
                   cv_rope_label_on_P |-> <<>>,
                   cv_rope_label_on_Q |-> <<>>]
    /\ UNCHANGED <<sequence, polygon2, added, pc, self, direction, start_index,
                   curr_polyline, dual_polyline, tangent_polyline,
                   shortest_path, i, curr_cv_rope_label, seen, call, ret,
                   prev>>

\* shortest_path.py:140-147
NewSimplePolygon(P, Q) ==
    /\ pc = "idle"
    /\ polygon = NoObject
    /\ sequence = NoSequence
    /\ error = None
    /\ IF P[1] # Q[1] \/ Last(P) # Last(Q)
       THEN /\ error' = "ValueError"
            /\ polygon' = NoObject
       ELSE /\ error' = None
            /\ polygon' = [kind |-> "SimplePolygon",
                           polyline_P |-> P, polyline_Q |-> Q,
                           cv_rope_label_on_P |-> <<>>,
                           cv_rope_label_on_Q |-> <<>>]
    /\ UNCHANGED <<sequence, polygon2, added, pc, self, direction, start_index,
                   curr_polyline, dual_polyline, tangent_polyline,
                   shortest_path, i, curr_cv_rope_label, seen, call, ret,
                   prev>>

----------------------------------------------------------------------------
(* SequenceOfBundles (shortest_path.py:37-77) *)

\* shortest_path.py:37-40
NewSequenceOfBundles(skeleton, radius) ==
    /\ pc = "idle"
    /\ sequence = NoSequence
    /\ polygon = NoObject
    /\ error = None
    /\ sequence' = [kind |-> "SequenceOfBundles",
                    skeleton |-> skeleton,
                    radius |-> radius,
                    outer_endpoints |-> [k \in 1..Len(skeleton) |-> <<>>]]
    /\ UNCHANGED <<polygon, polygon2, error, added, pc, self, direction,
                   start_index, curr_polyline, dual_polyline, tangent_polyline,
                   shortest_path, i, curr_cv_rope_label, seen, call, ret,
                   prev>>

\* the number of endpoints in a list of bundles
RECURSIVE Total(_)
Total(lists) ==
    IF lists = <<>> THEN 0 ELSE Len(Head(lists)) + Total(Tail(lists))

\* shortest_path.py:50-52: vertex + diff / diff.magnitude * radius, for a
\* diff along an axis
Clamped(vertex, outer_endpoint, radius) ==
    LET diff == Vec(vertex, outer_endpoint)
    IN  <<vertex[1] + Sgn(diff[1]) * radius, vertex[2] + Sgn(diff[2]) * radius>>

\* the endpoint is kept as given, or is moved along an axis: any other
\* clamped endpoint has irrational coordinates
Representable(vertex, outer_endpoint, radius) ==
    LET diff == Vec(vertex, outer_endpoint)
    IN  \/ ~FartherThan(vertex, outer_endpoint, radius)
        \/ diff[1] = 0
        \/ diff[2] = 0

\* shortest_path.py:50-52 for a diff off the axes: the point at distance
\* radius from the vertex on the ray through outer_endpoint, written
\* <<x, y, radius>> with <<x, y>> the point that gave the ray. Its first two
\* components give its direction from the vertex.
Moved(outer_endpoint, radius) ==
    <<outer_endpoint[1], outer_endpoint[2], radius>>

\* the stored point is the point given or a point moved along an axis
OnGrid(endpoint) == Len(endpoint) = 2

\* every stored endpoint is on the grid
AllOnGrid(lists) ==
    \A k \in 1..Len(lists) : \A j \in 1..Len(lists[k]) : OnGrid(lists[k][j])

\* shortest_path.py:50-52 in double precision: the vertices and endpoints
\* with coordinates 0 to 3 and the radii 1, 3 and 4 for which
\* calculate_distance(vertex, vertex + diff / diff.magnitude * radius) is
\* greater than radius, 30 of the 192 moves off the axes. For <<2, 0>>,
\* <<0, 3>> and 3 the moved point is (0.33589941132431256,
\* 2.4961508830135313) and the distance 3.0000000000000004.
Overshoots ==
    {<<<<0, 3>>, <<1, 0>>, 1>>, <<<<0, 3>>, <<3, 1>>, 1>>,
     <<<<1, 3>>, <<0, 0>>, 1>>, <<<<1, 3>>, <<2, 0>>, 1>>,
     <<<<2, 3>>, <<1, 0>>, 1>>, <<<<2, 3>>, <<3, 0>>, 1>>,
     <<<<3, 0>>, <<0, 1>>, 1>>, <<<<3, 0>>, <<1, 3>>, 1>>,
     <<<<3, 1>>, <<0, 0>>, 1>>, <<<<3, 1>>, <<0, 2>>, 1>>,
     <<<<3, 2>>, <<0, 1>>, 1>>, <<<<3, 2>>, <<0, 3>>, 1>>,
     <<<<3, 3>>, <<0, 2>>, 1>>, <<<<3, 3>>, <<2, 0>>, 1>>,
     <<<<0, 0>>, <<2, 3>>, 3>>, <<<<0, 0>>, <<3, 2>>, 3>>,
     <<<<0, 0>>, <<3, 3>>, 3>>, <<<<0, 2>>, <<3, 0>>, 3>>,
     <<<<0, 3>>, <<2, 0>>, 3>>, <<<<0, 3>>, <<3, 0>>, 3>>,
     <<<<0, 3>>, <<3, 1>>, 3>>, <<<<2, 0>>, <<0, 3>>, 3>>,
     <<<<2, 3>>, <<0, 0>>, 3>>, <<<<3, 0>>, <<0, 2>>, 3>>,
     <<<<3, 0>>, <<0, 3>>, 3>>, <<<<3, 0>>, <<1, 3>>, 3>>,
     <<<<3, 2>>, <<0, 0>>, 3>>, <<<<3, 3>>, <<0, 0>>, 3>>,
     <<<<3, 3>>, <<0, 1>>, 3>>, <<<<3, 3>>, <<1, 0>>, 3>>}

\* utils.py:46-47: calculate_distance(vertex, endpoint) > radius for a stored
\* endpoint
Beyond(vertex, endpoint, radius) ==
    IF OnGrid(endpoint) THEN FartherThan(vertex, endpoint, radius)
    ELSE \/ endpoint[3] > radius
         \/ /\ endpoint[3] = radius
            /\ <<vertex, <<endpoint[1], endpoint[2]>>, radius>> \in Overshoots

\* shortest_path.py:49-53
Endpoint(vertex, outer_endpoint, radius) ==
    IF ~FartherThan(vertex, outer_endpoint, radius) THEN outer_endpoint
    ELSE IF Representable(vertex, outer_endpoint, radius)
    THEN Clamped(vertex, outer_endpoint, radius)
    ELSE Moved(outer_endpoint, radius)

\* the ray to the endpoint is off the lines through the two skeleton edges
\* at the vertex: the angles computed for a moved point then differ from
\* those of the given point by rounding only, far less than EPSILON
ApartFromEdges(skeleton, vertex, outer_endpoint) ==
    IF \/ ~Contains(skeleton, vertex)
       \/ vertex = skeleton[1]
       \/ vertex = Last(skeleton)
    THEN TRUE
    ELSE LET index == Index(skeleton, vertex)
             ray == Vec(vertex, outer_endpoint)
         IN  /\ Det(ray, Vec(vertex, At(skeleton, index - 1))) # 0
             /\ Det(ray, Vec(vertex, At(skeleton, index + 1))) # 0

\* the vectors from the vertex to its neighbours on the skeleton and to the
\* endpoint are covered by the tables of computed angles
InTables(skeleton, vertex, outer_endpoint) ==
    IF \/ ~Contains(skeleton, vertex)
       \/ vertex = skeleton[1]
       \/ vertex = Last(skeleton)
    THEN TRUE
    ELSE /\ Tabulated(Vec(vertex, outer_endpoint))
         /\ Tabulated(Vec(vertex, At(skeleton, Index(skeleton, vertex) - 1)))
         /\ Tabulated(Vec(vertex, At(skeleton, Index(skeleton, vertex) + 1)))

\* s.insert(k, x)
InsertAt(s, k, x) == SubSeq(s, 1, k) \o <<x>> \o SubSeq(s, k + 1, Len(s))

\* the endpoint put at the end of the bundle whatever its angle
InsertedAtEnd(ends, prev_vertex, vertex, outer_endpoint, k) ==
    Append(ends, outer_endpoint)

\* the loop over the bundle without its test for an equal angle
RECURSIVE InsertedWithDuplicates(_, _, _, _, _)
InsertedWithDuplicates(ends, prev_vertex, vertex, outer_endpoint, k) ==
    IF k >= Len(ends) THEN Append(ends, outer_endpoint)
    ELSE IF is_larger_angle(prev_vertex, vertex, At(ends, k), outer_endpoint)
         THEN InsertAt(ends, k, outer_endpoint)
         ELSE InsertedWithDuplicates(ends, prev_vertex, vertex,
                                     outer_endpoint, k + 1)

\* shortest_path.py:66-77: the list the loop over the bundle leaves, entered
\* at position k
RECURSIVE Inserted(_, _, _, _, _)
Inserted(ends, prev_vertex, vertex, outer_endpoint, k) ==
    IF k >= Len(ends) THEN Append(ends, outer_endpoint)
    ELSE IF is_larger_angle(prev_vertex, vertex, At(ends, k), outer_endpoint)
         THEN InsertAt(ends, k, outer_endpoint)
         ELSE IF is_equal_angle(prev_vertex, vertex, At(ends, k),
                                outer_endpoint)
              THEN ends
              ELSE Inserted(ends, prev_vertex, vertex, outer_endpoint, k + 1)

\* the errors add_line_segment logs
VertexNotInSkeleton == "Vertex not in the skeleton"
FirstOrLastBundle ==
    "Cannot add line segments into the first and last bundles."
LongerThanRadius ==
    "The length of the added segment is greater than the max radius."
OutsideSector == "The segment must lie in the sector that smaller than pi"

\* add_line_segment has returned: it has no return statement with a value
Return(logged, stored) ==
    [returned |-> None, logged |-> logged, stored |-> stored]

\* the calls of add_line_segment the model makes
CanAdd(vertex, outer_endpoint) ==
    /\ pc = "idle"
    /\ sequence # NoSequence
    /\ polygon = NoObject
    /\ error = None
    /\ Total(sequence.outer_endpoints) < MaxEndpoints
    /\ \/ Representable(vertex, outer_endpoint, sequence.radius)
       \/ ApartFromEdges(sequence.skeleton, vertex, outer_endpoint)
    /\ InTables(sequence.skeleton, vertex,
                Endpoint(vertex, outer_endpoint, sequence.radius))

\* shortest_path.py:42-77: the sequence the call leaves, the error it raises
\* and what it returned
add_line_segment(vertex, outer_endpoint) ==
    LET skeleton == sequence.skeleton
        rejected(logged) ==
            [sequence |-> sequence, error |-> None,
             added |-> Return(logged, FALSE)]
    IN  IF ~Contains(skeleton, vertex)
        THEN rejected(<<VertexNotInSkeleton>>)
        ELSE IF vertex = skeleton[1] \/ vertex = Last(skeleton)
        THEN rejected(<<FirstOrLastBundle>>)
        ELSE
          LET index == Index(skeleton, vertex)
              prev_vertex == At(skeleton, index - 1)
              next_vertex == At(skeleton, index + 1)
              endpoint == Endpoint(vertex, outer_endpoint, sequence.radius)
              logged ==
                  IF FartherThan(vertex, outer_endpoint, sequence.radius)
                  THEN <<LongerThanRadius>> ELSE <<>>
              ends == At(sequence.outer_endpoints, index)
              after == Inserted(ends, prev_vertex, vertex, endpoint, 0)
          IN  IF \/ ZeroLength(prev_vertex, vertex, next_vertex)
                 \/ ZeroLength(prev_vertex, vertex, endpoint)
              THEN [sequence |-> sequence, error |-> "ValueError",
                    added |-> added]
              ELSE IF ~is_angle_sum(prev_vertex, vertex, next_vertex,
                                    endpoint)
              THEN rejected(logged \o <<OutsideSector>>)
              ELSE [sequence |-> [sequence EXCEPT
                                     !.outer_endpoints[index + 1] = after],
                    error |-> None,
                    added |-> Return(logged, after # ends)]

\* a call of add_line_segment
AddLineSegment(vertex, outer_endpoint) ==
    /\ CanAdd(vertex, outer_endpoint)
    /\ LET out == add_line_segment(vertex, outer_endpoint)
       IN  /\ sequence' = out.sequence
           /\ error' = out.error
           /\ added' = out.added
    /\ UNCHANGED <<polygon, polygon2, pc, self, direction, start_index,
                   curr_polyline, dual_polyline, tangent_polyline,
                   shortest_path, i, curr_cv_rope_label, seen, call, ret,
                   prev>>

\* the least squared distance between two skeleton vertices
MinDistance2(skeleton) ==
    LET all == {Norm2(Vec(skeleton[a], skeleton[b])) :
                   a \in 1..Len(skeleton), b \in 1..Len(skeleton)}
                   \ {0}
    IN  CHOOSE m \in all : \A o \in all : m <= o

\* shortest_path.py:80, when 0.5 * the least distance is an integer
min_radius(skeleton) == ISqrtIn(MinDistance2(skeleton), 0, 40) \div 2

\* 0.5 * the least distance is an integer, and every endpoint is kept or is
\* moved along an axis
PreprocessRepresentable ==
    LET skeleton == sequence.skeleton
        r == ISqrtIn(MinDistance2(skeleton), 0, 40)
    IN  /\ AllOnGrid(sequence.outer_endpoints)
        /\ r * r = MinDistance2(skeleton)
        /\ r % 2 = 0
        /\ \A k \in 1..Len(skeleton) :
              \A j \in 1..Len(sequence.outer_endpoints[k]) :
                  Representable(skeleton[k], sequence.outer_endpoints[k][j],
                                min_radius(skeleton))

\* shortest_path.py:79-86
Preprocess ==
    /\ pc = "idle"
    /\ sequence # NoSequence
    /\ polygon = NoObject
    /\ error = None
    /\ PreprocessRepresentable
    /\ sequence' = [sequence EXCEPT !.outer_endpoints =
           [k \in 1..Len(sequence.skeleton) |->
               [j \in 1..Len(sequence.outer_endpoints[k]) |->
                   Endpoint(sequence.skeleton[k],
                            sequence.outer_endpoints[k][j],
                            min_radius(sequence.skeleton))]]]
    /\ UNCHANGED <<polygon, polygon2, error, added, pc, self, direction,
                   start_index, curr_polyline, dual_polyline, tangent_polyline,
                   shortest_path, i, curr_cv_rope_label, seen, call, ret,
                   prev>>

----------------------------------------------------------------------------
(* SimplePolygonFromSequenceOfBundle.__init__ (shortest_path.py:284-319) *)

\* the turn of the skeleton at position k: 1 left, -1 right, 0 neither
Turn(skeleton, k) ==
    IF is_left(skeleton[k - 1], skeleton[k], skeleton[k + 1], TRUE) THEN 1
    ELSE IF is_left(skeleton[k - 1], skeleton[k], skeleton[k + 1], FALSE)
         THEN -1
         ELSE 0

\* labels of the positions k..Len-1: a vertex that turns gets the number of
\* its run of equal turns, a vertex that does not turn gets 0
RECURSIVE RopeLabels(_, _, _, _)
RopeLabels(skeleton, k, last_turn, run) ==
    IF k >= Len(skeleton) THEN <<>>
    ELSE LET t == Turn(skeleton, k)
         IN  IF t = 0
             THEN <<0>> \o RopeLabels(skeleton, k + 1, last_turn, run)
             ELSE IF t = last_turn
                  THEN <<run>> \o RopeLabels(skeleton, k + 1, t, run)
                  ELSE <<run + 1>> \o RopeLabels(skeleton, k + 1, t, run + 1)

\* utils.decompose_polyline_to_convex_rope: one label per skeleton vertex, 0
\* on the first and the last
decompose_polyline_to_convex_rope(skeleton) ==
    <<0>> \o RopeLabels(skeleton, 2, 0, 0) \o <<0>>

RECURSIVE Concat(_, _, _)
Concat(f, a, b) == IF a > b THEN <<>> ELSE f[a] \o Concat(f, a + 1, b)

Repeat(x, n) == [k \in 1..n |-> x]

\* the builder with the two sides taken for each other: the vertex goes to P
\* and the endpoints to Q when the first endpoint is on the left
BuiltChainsSidesSwapped(seq) ==
    LET skeleton == seq.skeleton
        n == Len(skeleton)
        onQ(k) == ~is_left(skeleton[k - 1], skeleton[k],
                           seq.outer_endpoints[k][1], TRUE)
        ptsP == [k \in 2..(n - 1) |->
                    IF onQ(k) THEN seq.outer_endpoints[k]
                    ELSE <<skeleton[k]>>]
        ptsQ == [k \in 2..(n - 1) |->
                    IF onQ(k) THEN <<skeleton[k]>>
                    ELSE seq.outer_endpoints[k]]
    IN  [kind |-> "SimplePolygonFromSequenceOfBundle",
         polyline_P |->
             <<skeleton[1]>> \o Concat(ptsP, 2, n - 1) \o <<skeleton[n]>>,
         polyline_Q |->
             <<skeleton[1]>> \o Concat(ptsQ, 2, n - 1) \o <<skeleton[n]>>,
         cv_rope_label_on_P |-> <<>>,
         cv_rope_label_on_Q |-> <<>>]

\* shortest_path.py:285-316: the two chains and their label lists
BuiltChains(seq) ==
    LET skeleton == seq.skeleton
        n == Len(skeleton)
        skeleton_labels == decompose_polyline_to_convex_rope(skeleton)
        onQ(k) == is_left(skeleton[k - 1], skeleton[k],
                          seq.outer_endpoints[k][1], TRUE)
        ptsP == [k \in 2..(n - 1) |->
                    IF onQ(k) THEN seq.outer_endpoints[k]
                    ELSE <<skeleton[k]>>]
        ptsQ == [k \in 2..(n - 1) |->
                    IF onQ(k) THEN <<skeleton[k]>>
                    ELSE seq.outer_endpoints[k]]
        labP == [k \in 2..(n - 1) |->
                    Repeat(skeleton_labels[k], Len(ptsP[k]))]
        labQ == [k \in 2..(n - 1) |->
                    Repeat(skeleton_labels[k], Len(ptsQ[k]))]
    IN  [kind |-> "SimplePolygonFromSequenceOfBundle",
         polyline_P |->
             <<skeleton[1]>> \o Concat(ptsP, 2, n - 1) \o <<skeleton[n]>>,
         polyline_Q |->
             <<skeleton[1]>> \o Concat(ptsQ, 2, n - 1) \o <<skeleton[n]>>,
         cv_rope_label_on_P |->
             <<0>> \o Concat(labP, 2, n - 1) \o <<skeleton_labels[n]>>,
         cv_rope_label_on_Q |->
             <<0>> \o Concat(labQ, 2, n - 1) \o <<skeleton_labels[n]>>]

\* shortest_path.py:284-319: outer_endpoints[i][0] raises IndexError on an
\* empty bundle
NewPolygonFromSequence ==
    /\ pc = "idle"
    /\ sequence # NoSequence
    /\ polygon = NoObject
    /\ error = None
    /\ AllOnGrid(sequence.outer_endpoints)
    /\ IF \E k \in 2..(Len(sequence.skeleton) - 1) :
              sequence.outer_endpoints[k] = <<>>
       THEN /\ error' = "IndexError"
            /\ polygon' = NoObject
       ELSE LET built == BuiltChains(sequence)
            IN  IF \/ built.polyline_P[1] # built.polyline_Q[1]
                   \/ Last(built.polyline_P) # Last(built.polyline_Q)
                THEN /\ error' = "ValueError"
                     /\ polygon' = NoObject
                ELSE /\ error' = None
                     /\ polygon' = built
    /\ UNCHANGED <<sequence, polygon2, added, pc, self, direction, start_index,
                   curr_polyline, dual_polyline, tangent_polyline,
                   shortest_path, i, curr_cv_rope_label, seen, call, ret,
                   prev>>

\* main.py:78: a SimplePolygon over the lists of the polygon built from the
\* sequence
NewPolygon2 ==
    /\ pc = "idle"
    /\ polygon.kind = "SimplePolygonFromSequenceOfBundle"
    /\ ~polygon2
    /\ polygon2' = TRUE
    /\ UNCHANGED <<sequence, polygon, error, added, pc, self, direction,
                   start_index, curr_polyline, dual_polyline, tangent_polyline,
                   shortest_path, i, curr_cv_rope_label, seen, call, ret,
                   prev>>

----------------------------------------------------------------------------
(* Specification *)

Init ==
    /\ sequence = NoSequence
    /\ polygon = NoObject
    /\ polygon2 = FALSE
    /\ error = None
    /\ added = NoAdd
    /\ pc = "idle"
    /\ self = None
    /\ direction = TRUE
    /\ start_index = 0
    /\ curr_polyline = "P"
    /\ dual_polyline = "Q"
    /\ tangent_polyline = <<>>
    /\ shortest_path = <<>>
    /\ i = 0
    /\ curr_cv_rope_label = 0
    /\ seen = {}
    /\ call = NoCall
    /\ ret = NoOutcome
    /\ prev = NoPrev

Next ==
    \/ /\ polygon = NoObject
       /\ \E in \in ChainInputs : NewSimplePolygon(in[1], in[2])
    \/ /\ sequence = NoSequence
       /\ polygon = NoObject
       /\ \E skeleton \in Skeletons, radius \in Radii :
              NewSequenceOfBundles(skeleton, radius)
    \/ /\ sequence # NoSequence
       /\ polygon = NoObject
       /\ \E vertex \in Grid, outer_endpoint \in Endpoints :
              AddLineSegment(vertex, outer_endpoint)
    \/ Preprocess
    \/ NewPolygonFromSequence
    \/ NewPolygon2
    \/ \E s \in {"polygon", "polygon2"}, d \in BOOLEAN : Call(s, d)
    \/ LoopForever
    \/ GoalAtStart
    \/ GoalNext
    \/ InitHull
    \/ Absorb
    \/ ReachGoal
    \/ ReachGoalLost
    \/ NoLink
    \/ Switch
    \/ SwitchLost

Spec == Init /\ [][Next]_vars

----------------------------------------------------------------------------
(* Geometry the properties are stated with *)

Reverse(s) == [k \in 1..Len(s) |-> s[Len(s) + 1 - k]]

\* r lies on the closed segment from a to b
Between(a, b, r) ==
    /\ Cross(a, b, r) = 0
    /\ Min2(a[1], b[1]) <= r[1] /\ r[1] <= Max2(a[1], b[1])
    /\ Min2(a[2], b[2]) <= r[2] /\ r[2] <= Max2(a[2], b[2])

\* the closed segments ab and cd have a common point
SegmentsMeet(a, b, c, d) ==
    \/ /\ Sgn(Cross(a, b, c)) # Sgn(Cross(a, b, d))
       /\ Sgn(Cross(c, d, a)) # Sgn(Cross(c, d, b))
    \/ Between(a, b, c)
    \/ Between(a, b, d)
    \/ Between(c, d, a)
    \/ Between(c, d, b)

\* the closed walk along P and back along Q
Boundary(P, Q) == P \o Reverse(SubSeq(Q, 2, Len(Q) - 1))

\* the closed walk c is a simple polygon: no vertex twice, edges that follow
\* each other meet in their common vertex only, other edges do not meet
IsSimple(c) ==
    LET n == Len(c)
        nx(k) == (k % n) + 1
    IN  /\ n >= 3
        /\ \A a, b \in 1..n : a < b => c[a] # c[b]
        /\ \A a \in 1..n :
              ~(/\ Cross(c[a], c[nx(a)], c[nx(nx(a))]) = 0
                /\ Dot(Vec(c[nx(a)], c[a]), Vec(c[nx(a)], c[nx(nx(a))])) > 0)
        /\ \A a, b \in 1..n :
              (a < b /\ nx(a) # b /\ nx(b) # a)
                  => ~SegmentsMeet(c[a], c[nx(a)], c[b], c[nx(b)])

BoundsSimplePolygon ==
    /\ polygon # NoObject
    /\ IsSimple(Boundary(polygon.polyline_P, polygon.polyline_Q))

\* two edges of the closed walk along P and back along Q cross each other
ChainsCross ==
    /\ polygon # NoObject
    /\ LET c == Boundary(polygon.polyline_P, polygon.polyline_Q)
           n == Len(c)
           nx(k) == (k % n) + 1
       IN  \E a, b \in 1..n :
              /\ Sgn(Cross(c[a], c[nx(a)], c[b]))
                     * Sgn(Cross(c[a], c[nx(a)], c[nx(b)])) = -1
              /\ Sgn(Cross(c[b], c[nx(b)], c[a]))
                     * Sgn(Cross(c[b], c[nx(b)], c[nx(a)])) = -1

Points(s) == {s[k] : k \in 1..Len(s)}

\* a call has finished with this outcome
Returned == pc = "idle" /\ ret # NoOutcome

----------------------------------------------------------------------------
(* Properties *)

\* C1: every path find_shortest_path returns, from the base engine or the
\* pruned one and for either direction, starts with polyline_P[0] and ends
\* with polyline_P[-1], however many chain switches were made.
C1_PathJoinsEndpoints ==
    ret.kind = "path" =>
        /\ ret.path # <<>>
        /\ ret.path[1] = polygon.polyline_P[1]
        /\ Last(ret.path) = Goal

\* a returned path that holds a point of P alone and a point of Q alone: the
\* call switched chains
C1_SwitchedPathReturned ==
    /\ ret.kind = "path"
    /\ Points(ret.path) \ Points(polygon.polyline_Q) # {}
    /\ Points(ret.path) \ Points(polygon.polyline_P) # {}

\* C2: on chains that bound a simple polygon no call of find_shortest_path
\* runs forever.
C2_SimplePolygonTerminates ==
    pc = "diverged" => ~BoundsSimplePolygon

\* C3: when the intersection set Y* of an added point is not empty and no
\* pair of X* and Y* passes verify_link, the call ends with the failure
\* "Cannot find link [u*, v*]" and hands no path to the caller.
C3_NoLinkAborts ==
    [][(InFor /\ Ystar # <<>> /\ ValidLinks(Xstar, Ystar, direction) = {})
          => (pc' = "idle" /\ ret' = [kind |-> CannotFindLink, path |-> <<>>])
      ]_vars

\* a call has ended with the failure
C3_FailureRaised ==
    /\ pc = "idle"
    /\ ret.kind = CannotFindLink
    /\ ret.path = <<>>


\* C4: chains that share their end points but do not bound a simple polygon
\* are not told apart as such.  The failure "Cannot find link [u*, v*]" is
\* raised only from an iteration whose intersection set Y* is not empty and
\* has no pair passing verify_link; on every other input the call goes on,
\* and may return a path.
C4_FailureOnlyWithoutLink ==
    [][(pc # "idle" /\ pc' = "idle" /\ ret'.kind = CannotFindLink)
          => (InFor /\ Ystar # <<>>
                /\ ValidLinks(Xstar, Ystar, direction) = {})
      ]_vars

\* the failure raised on chains that cross
C4_FailureOnCrossingChains ==
    /\ Returned
    /\ ret.kind = CannotFindLink
    /\ ChainsCross

\* C4 as stated: on chains that cross every call of find_shortest_path ends
\* with the failure "Cannot find link [u*, v*]".
C4_CrossingChainsAlwaysFail ==
    (Returned /\ ChainsCross) => ret.kind = CannotFindLink

\* floor(1000 * |ab|)
SegmentLength(a, b) == ISqrtIn(Norm2(Vec(a, b)) * 1000000, 0, 40000)

\* the sum of floor(1000 * length) over the segments of the path: less than
\* 1000 * length by under one per segment
RECURSIVE LowLength(_)
LowLength(path) ==
    IF Len(path) < 2 THEN 0
    ELSE SegmentLength(path[1], path[2]) + LowLength(Tail(path))

\* the two paths can have the same total length
SameLength(p, q) ==
    /\ LowLength(p) <= LowLength(q) + Len(q)
    /\ LowLength(q) <= LowLength(p) + Len(p)

\* C5: on a simple polygon the paths returned for direction True and for
\* direction False have the same total length.
C5_DirectionsAgree ==
    (/\ Returned
     /\ BoundsSimplePolygon
     /\ prev.call.self = call.self
     /\ prev.call.direction # call.direction
     /\ prev.ret.kind = "path"
     /\ ret.kind = "path")
        => SameLength(prev.ret.path, ret.path)

\* C6: on a simple polygon built from a sequence of bundles the pruned
\* engine and the base engine run on the same two chains end the same way,
\* and when they return paths the paths have the same total length.
C6_PrunedAgreesWithBase ==
    (/\ Returned
     /\ BoundsSimplePolygon
     /\ prev.ret # NoOutcome
     /\ prev.call.self # call.self
     /\ prev.call.direction = call.direction)
        => /\ ret.kind = prev.ret.kind
           /\ SameLength(prev.ret.path, ret.path)

\* C7: a call of find_shortest_path leaves the polygon as it was, and a call
\* repeated on the same object with the same direction ends as the call
\* before it did, with the same points in the same order.
C7_Repeatable ==
    /\ []((Returned /\ prev.ret # NoOutcome /\ prev.call = call)
              => ret = prev.ret)
    /\ [][polygon # NoObject => polygon' = polygon]_vars

\* a path of more than two points returned twice in a row
C7_SamePathTwice ==
    /\ Returned
    /\ prev.call = call
    /\ prev.ret = ret
    /\ ret.kind = "path"
    /\ Len(ret.path) > 2

\* C8: the chains of every polygon object share their first and their last
\* point; those of a polygon built from a sequence start at skeleton[0] and
\* end at skeleton[-1]; the SimplePolygon constructor raises ValueError and
\* makes no object when the first or the last points differ.
C8_ChainsShareEndpoints ==
    /\ polygon # NoObject =>
          /\ polygon.polyline_P[1] = polygon.polyline_Q[1]
          /\ Last(polygon.polyline_P) = Last(polygon.polyline_Q)
    /\ polygon.kind = "SimplePolygonFromSequenceOfBundle" =>
          /\ polygon.polyline_P[1] = sequence.skeleton[1]
          /\ Last(polygon.polyline_P) = Last(sequence.skeleton)
    /\ error = "ValueError" => polygon = NoObject

\* a simple polygon built from bundles
C8_BuiltFromBundles ==
    /\ polygon.kind = "SimplePolygonFromSequenceOfBundle"
    /\ Len(sequence.skeleton) > 2
    /\ BoundsSimplePolygon

\* some interior vertex of the sequence has an empty bundle
HasEmptyBundle ==
    /\ sequence # NoSequence
    /\ \E k \in 2..(Len(sequence.skeleton) - 1) :
           sequence.outer_endpoints[k] = <<>>

\* C9: the builder succeeds on a sequence with an empty bundle on an
\* interior vertex and puts that vertex on both chains; a sequence with no
\* endpoint at all gives polyline_P = polyline_Q = skeleton.
C9_EmptyBundleKeepsVertex ==
    /\ HasEmptyBundle => error # "IndexError"
    /\ polygon.kind = "SimplePolygonFromSequenceOfBundle" =>
          /\ \A k \in 2..(Len(sequence.skeleton) - 1) :
                 sequence.outer_endpoints[k] = <<>> =>
                     /\ sequence.skeleton[k] \in Points(polygon.polyline_P)
                     /\ sequence.skeleton[k] \in Points(polygon.polyline_Q)
          /\ Total(sequence.outer_endpoints) = 0 =>
                 /\ polygon.polyline_P = sequence.skeleton
                 /\ polygon.polyline_Q = sequence.skeleton

\* C10: when both chains are equal, find_shortest_path returns the chain
\* itself, vertex for vertex.
C10_EqualChainsGiveSkeleton ==
    (Returned /\ polygon.polyline_P = polygon.polyline_Q)
        => ret = [kind |-> "path", path |-> polygon.polyline_P]

\* what the vertex at position k gives to the chain: its endpoints in their
\* stored order when the chain is on the side of the first endpoint (P for
\* the left), the vertex itself when not
Contribution(k, chain) ==
    IF is_left(sequence.skeleton[k - 1], sequence.skeleton[k],
               sequence.outer_endpoints[k][1], TRUE) <=> (chain = "P")
    THEN sequence.outer_endpoints[k]
    ELSE <<sequence.skeleton[k]>>

\* the contributions of the positions k and after, then skeleton[-1]
RECURSIVE ContributionsFrom(_, _)
ContributionsFrom(k, chain) ==
    IF k >= Len(sequence.skeleton) THEN <<Last(sequence.skeleton)>>
    ELSE Contribution(k, chain) \o ContributionsFrom(k + 1, chain)

\* the points stored in the bundles
RECURSIVE StoredEndpoints(_)
StoredEndpoints(k) ==
    IF k > Len(sequence.skeleton) THEN {}
    ELSE Points(sequence.outer_endpoints[k]) \cup StoredEndpoints(k + 1)

\* C11: in a polygon built from a sequence each interior vertex is on one
\* chain and its endpoints, in their stored order, on the other: on P the
\* endpoints and on Q the vertex when the first endpoint is left of the edge
\* from the previous vertex, the other way round when not; the contributions
\* follow the skeleton between skeleton[0] and skeleton[-1], and P and Q
\* together hold every skeleton vertex and every stored endpoint.
C11_VertexOppositeItsBundle ==
    polygon.kind = "SimplePolygonFromSequenceOfBundle" =>
        /\ polygon.polyline_P =
               <<sequence.skeleton[1]>> \o ContributionsFrom(2, "P")
        /\ polygon.polyline_Q =
               <<sequence.skeleton[1]>> \o ContributionsFrom(2, "Q")
        /\ Points(polygon.polyline_P) \cup Points(polygon.polyline_Q)
               = Points(sequence.skeleton) \cup StoredEndpoints(1)

\* a polygon built with a bundle of two endpoints, which went to P
C11_TwoEndpointsOnP ==
    /\ polygon.kind = "SimplePolygonFromSequenceOfBundle"
    /\ \E k \in 2..(Len(sequence.skeleton) - 1) :
           /\ Len(sequence.outer_endpoints[k]) = 2
           /\ is_left(sequence.skeleton[k - 1], sequence.skeleton[k],
                      sequence.outer_endpoints[k][1], TRUE)

C13_EndpointsWithinRadius ==
    sequence # NoSequence =>
        \A k \in 1..Len(sequence.skeleton) :
            \A j \in 1..Len(sequence.outer_endpoints[k]) :
                ~Beyond(sequence.skeleton[k], sequence.outer_endpoints[k][j],
                        sequence.radius)

\* the ray from B to D is strictly between the rays from B to A and from B
\* to C, which make less than a straight angle
StrictlyInside(A, B, C, D) ==
    LET turn == Sgn(Det(Vec(B, A), Vec(B, C)))
    IN  /\ turn # 0
        /\ Sgn(Det(Vec(B, A), Vec(B, D))) = turn
        /\ Sgn(Det(Vec(B, D), Vec(B, C))) = turn

\* C14: every endpoint stored in the bundle of a vertex lies strictly inside
\* the sector, smaller than a straight angle, between the edges to the
\* previous and the next skeleton vertex: an endpoint on the line that
\* continues the incoming edge is never stored, on a collinear skeleton
\* either.
C14_StoredStrictlyInside ==
    sequence # NoSequence =>
        \A k \in 2..(Len(sequence.skeleton) - 1) :
            \A j \in 1..Len(sequence.outer_endpoints[k]) :
                StrictlyInside(sequence.skeleton[k - 1], sequence.skeleton[k],
                               sequence.skeleton[k + 1],
                               sequence.outer_endpoints[k][j])

\* the vertex is an interior vertex of the skeleton
Interior(skeleton, vertex) ==
    /\ Contains(skeleton, vertex)
    /\ vertex # skeleton[1]
    /\ vertex # Last(skeleton)

\* the call is one of coincident points: the angle computation raises
Degenerate(vertex, outer_endpoint) ==
    LET skeleton == sequence.skeleton
        index == Index(skeleton, vertex)
    IN  /\ Interior(skeleton, vertex)
        /\ \/ ZeroLength(At(skeleton, index - 1), vertex,
                         At(skeleton, index + 1))
           \/ ZeroLength(At(skeleton, index - 1), vertex,
                         Endpoint(vertex, outer_endpoint, sequence.radius))

\* the call is one add_line_segment rejects: the vertex is not in the
\* skeleton, or is its first or last vertex, or the endpoint fails the sector
\* test, or a stored endpoint of the bundle has its angle
Rejected(vertex, outer_endpoint) ==
    LET skeleton == sequence.skeleton
        index == Index(skeleton, vertex)
        prev_vertex == At(skeleton, index - 1)
        next_vertex == At(skeleton, index + 1)
        endpoint == Endpoint(vertex, outer_endpoint, sequence.radius)
        ends == At(sequence.outer_endpoints, index)
    IN  IF ~Interior(skeleton, vertex) THEN TRUE
        ELSE IF Degenerate(vertex, outer_endpoint) THEN FALSE
        ELSE \/ ~is_angle_sum(prev_vertex, vertex, next_vertex, endpoint)
             \/ \E j \in 1..Len(ends) :
                    is_equal_angle(prev_vertex, vertex, ends[j], endpoint)

\* the bundles of the first and the last skeleton vertex are empty
TerminalBundlesEmpty ==
    sequence # NoSequence =>
        /\ sequence.outer_endpoints[1] = <<>>
        /\ sequence.outer_endpoints[Len(sequence.skeleton)] = <<>>

\* C15: a call of add_line_segment that is rejected returns without raising
\* and leaves every bundle as it was; a call that is neither rejected nor one
\* of coincident points stores its endpoint, whatever was rejected before;
\* the bundles of the first and the last skeleton vertex stay empty.
C15_RejectedCallChangesNothing ==
    /\ TerminalBundlesEmpty
    /\ \A vertex \in Grid, outer_endpoint \in Endpoints :
           CanAdd(vertex, outer_endpoint) =>
               LET out == add_line_segment(vertex, outer_endpoint)
               IN  IF Rejected(vertex, outer_endpoint)
                   THEN /\ out.sequence = sequence
                        /\ out.error = None
                        /\ out.added.returned = None
                   ELSE Degenerate(vertex, outer_endpoint) \/
                        /\ out.error = None
                        /\ Total(out.sequence.outer_endpoints) =
                               Total(sequence.outer_endpoints) + 1
                        /\ Contains(
                               out.sequence.outer_endpoints[
                                   Index(sequence.skeleton, vertex) + 1],
                               Endpoint(vertex, outer_endpoint,
                                        sequence.radius))

\* a call was rejected for an angle already stored: nothing was logged or
\* stored, and the bundle still holds its endpoint
C15_DuplicateRejected ==
    /\ sequence # NoSequence
    /\ added.returned = None
    /\ ~added.stored
    /\ added.logged = <<>>
    /\ Total(sequence.outer_endpoints) = 1

\* C16: the value add_line_segment returns tells whether the endpoint was
\* stored: a call that returns what the call before it returned has stored
\* its endpoint if and only if that call had.
C16_ReturnTellsStored ==
    \A vertex \in Grid, outer_endpoint \in Endpoints :
        CanAdd(vertex, outer_endpoint) =>
            LET out == add_line_segment(vertex, outer_endpoint)
            IN  (/\ out.error = None
                 /\ out.added.returned = added.returned) =>
                    out.added.stored = added.stored

\* a step of find_shortest_path that switches chains: the only step of a
\* running call that negates direction
Switches == pc = "for" /\ pc' = "while" /\ direction' # direction

\* C17: on chains that bound a simple polygon a switch of chains makes
\* progress: the start index it sets is greater than every start index the
\* call has used on the chain it switches to.
C17_SwitchAdvances ==
    [][(Switches /\ BoundsSimplePolygon) =>
          \A c \in seen :
              c[1] = curr_polyline' => start_index' > c[2]]_vars

\* C18: a switch of chains appends to the path a run of the tangent polyline
\* that begins with the start point of the current chain and ends with U*;
\* it sets the start index to the position of V* in the dual chain, makes
\* the dual chain the current one and negates direction.
C18_SwitchAppendsRunToUstar ==
    [][Switches =>
          LET n == Len(shortest_path)
              run == SubSeq(shortest_path', n + 1, Len(shortest_path'))
          IN  /\ SubSeq(shortest_path', 1, n) = shortest_path
              /\ run # <<>>
              /\ run[1] = StartPoint
              /\ Last(run) = Ustar
              /\ start_index' = Index(Chain(dual_polyline), Vstar)
              /\ At(Chain(dual_polyline), start_index') = Vstar
              /\ curr_polyline' = dual_polyline
              /\ direction' = ~direction]_vars

\* on a simple polygon, after a switch whose run went around the end of the
\* tangent polyline: U*, the last point of the path, is the point the
\* tangent polyline begins and ends with
C18_SwitchedAroundTheEnd ==
    /\ pc = "while"
    /\ BoundsSimplePolygon
    /\ Len(shortest_path) >= 2
    /\ Len(tangent_polyline) > 2
    /\ Last(shortest_path) = tangent_polyline[1]
    /\ Last(shortest_path) = Last(tangent_polyline)

\* every three consecutive entries satisfy is_left_on under direction d
Convex(tp, d) ==
    \A k \in 1..(Len(tp) - 2) : is_left_on(tp[k], tp[k + 1], tp[k + 2], d)

\* C19: while a hull is being built the tangent polyline is convex, every
\* three consecutive entries satisfying is_left_on under the current
\* direction: the hull of the two initial points, and every hull an
\* absorption leaves, the one that absorbs the goal included.
C19_TangentPolylineConvex ==
    pc = "for" =>
        /\ Convex(tangent_polyline, direction)
        /\ (InFor /\ Ystar = <<>>) => Convex(Absorbed, direction)

\* on a simple polygon, a tangent polyline of five entries or more, made
\* by absorptions
C19_HullOfThreeTriples ==
    /\ pc = "for"
    /\ BoundsSimplePolygon
    /\ Len(tangent_polyline) >= 5

\* C20: a call of find_shortest_path ends by returning a path or by raising
\* 'Cannot find link [u*, v*]', and in no other way.
C20_EndsWithPathOrNoLink ==
    ret.kind \in {NoOutcome.kind, "path", CannotFindLink}

\* the convex-rope label the current hull started with, read from the label
\* list of the chain named name (shortest_path.py:355-357)
RopeLabelAt(name) ==
    IF At(Labels(name), start_index) = 0
    THEN At(Labels(name), start_index + 1)
    ELSE At(Labels(name), start_index)

\* the chains of the polygon are two lists of equal contents
EqualContents == polygon.polyline_P = polygon.polyline_Q

\* in an outer iteration the dual chain is the other list, and direction
\* tells which list is the current one
Paired ==
    /\ pc = "for" => dual_polyline # curr_polyline
    /\ pc \in {"while", "for"} => (direction <=> curr_polyline = "P")

\* C21: in every outer iteration of find_shortest_path the dual chain is the
\* chain other than the current one, and direction is true exactly when the
\* current chain is polyline_P, also when the two chains have equal
\* contents; in the pruned engine the convex-rope label in use is read from
\* the label list of the current chain.
C21_ChainsAndDirectionPaired ==
    /\ Paired
    /\ (pc = "for" /\ Pruned(self)) =>
           curr_cv_rope_label = RopeLabelAt(curr_polyline)

\* what holds of C21: the pairing on chains of different contents, and the
\* label list of the current chain in the pruned engine
PairedUnlessEqualContents ==
    /\ (polygon # NoObject /\ ~EqualContents) => Paired
    /\ (pc = "for" /\ Pruned(self)) =>
           curr_cv_rope_label = RopeLabelAt(curr_polyline)

\* on equal chains a call that started on polyline_Q has switched: the
\* current chain is still polyline_Q and direction is true
SwitchedOntoItself ==
    /\ pc = "for"
    /\ EqualContents
    /\ curr_polyline = "Q"
    /\ direction

\* a switch between chains of different contents, in the pruned engine
SwitchedInPrunedEngine ==
    /\ pc = "for"
    /\ Pruned(self)
    /\ ~EqualContents
    /\ Cardinality(seen) >= 2

====
